---- MODULE Spec2Model ----
(***************************************************************************)
(* Daily health summaries of pulse-backend:                                *)
(* app/services/health_summary_service.py (HealthSummaryService) with the  *)
(* biomarkers, biomarker_ranges and daily_health_summaries tables it reads *)
(* and writes.                                                             *)
(*                                                                         *)
(* Numbers: biomarker values are non-negative integers.  A mean is kept as *)
(* the pair (sum, count) and compared with a threshold t as sum ~ t*count; *)
(* round(x, 2) is kept in hundredths (Round2).                             *)
(* Time: summary_date and the date part of recorded_at are day numbers;    *)
(* created_at is the insertion sequence number of the row.                 *)
(***************************************************************************)
EXTENDS Integers, Sequences, FiniteSets, TLC

VARIABLES
    today,          \* date.today() of the server
    ranges,         \* table biomarker_ranges: biomarker_type -> range row
    biomarkers,     \* table biomarkers: a set of readings
    summaries,      \* table daily_health_summaries: sequence of rows, id = index
    regen,          \* regenerate_summary calls in flight, per worker
    pass,           \* the batch pass in flight
    calcIn,         \* calculator alone: the rows the biomarkers query returned
    calcOut,        \* calculator alone: its result
    clsIn,          \* classifier alone: range row and the mean as (sum, count)
    clsOut,         \* classifier alone: the status label
    patients,       \* table patients: profile rows
    providers,      \* table providers: profile rows
    connections,    \* table patient_provider_connections: sequence of rows, id = index
    dispatch,       \* the send_morning_briefing_emails run in flight
    outbox          \* the emails the runs in flight handed to the email service

vars == <<today, ranges, biomarkers, summaries, regen, pass, calcIn, calcOut, clsIn, clsOut,
          patients, providers, connections, dispatch, outbox>>

-----------------------------------------------------------------------------
(* Model values *)

Null == "null"

Users == {"u1", "u2"}
Dates == {1, 2}
SummaryType == {"morning_briefing", "evening_summary"}

\* Optional[date]: None, or a date
NoDate == {}
SomeDate(d) == {d}
GivenDate(target) == CHOOSE d \in target : TRUE
OptionalDates == {NoDate} \cup {SomeDate(d) : d \in Dates}

\* app/schemas/biomarker.py BiomarkerType
BiomarkerType ==
    {"heart_rate", "blood_pressure_systolic", "blood_pressure_diastolic",
     "glucose", "steps", "sleep"}

\* steps goal of the steps block
StepsGoal == 10000

RangeRow(cl, mn, mo, xo, xn, ch) ==
    [critical_low |-> cl, min_normal |-> mn, min_optimal |-> mo,
     max_optimal |-> xo, max_normal |-> xn, critical_high |-> ch]

\* The nesting of a well-formed range row
Nested(r) ==
    /\ r.critical_low <= r.min_normal
    /\ r.min_normal <= r.min_optimal
    /\ r.min_optimal <= r.max_optimal
    /\ r.max_optimal <= r.max_normal
    /\ r.max_normal <= r.critical_high

-----------------------------------------------------------------------------
(* Arithmetic helpers *)

RECURSIVE SumSeq(_)
SumSeq(s) == IF s = <<>> THEN 0 ELSE Head(s) + SumSeq(Tail(s))

RECURSIVE MinSeq(_)
MinSeq(s) ==
    IF Len(s) = 1 THEN s[1]
    ELSE LET m == MinSeq(Tail(s)) IN IF s[1] < m THEN s[1] ELSE m

RECURSIVE MaxSeq(_)
MaxSeq(s) ==
    IF Len(s) = 1 THEN s[1]
    ELSE LET m == MaxSeq(Tail(s)) IN IF s[1] > m THEN s[1] ELSE m

\* round(num / den, 2) in hundredths, ties to even (num >= 0, den > 0)
Round2(num, den) ==
    LET q == (num * 100) \div den
        r == (num * 100) % den
    IN  IF 2 * r < den THEN q
        ELSE IF 2 * r > den THEN q + 1
        ELSE IF q % 2 = 0 THEN q ELSE q + 1

-----------------------------------------------------------------------------
(* calculate_daily_summary *)

\* StatusLabel with the concerning test made before the critical test
StatusLabelConcerningFirst(r, sum, n) ==
    IF sum < r.min_normal * n \/ sum > r.max_normal * n THEN "concerning"
    ELSE IF sum < r.critical_low * n \/ sum > r.critical_high * n THEN "critical"
    ELSE IF r.min_optimal * n <= sum /\ sum <= r.max_optimal * n THEN "optimal"
    ELSE "normal"

\* Lines 182-193: the status of a mean sum/n against range row r
StatusLabel(r, sum, n) ==
    IF sum < r.critical_low * n \/ sum > r.critical_high * n THEN "critical"
    ELSE IF sum < r.min_normal * n \/ sum > r.max_normal * n THEN "concerning"
    ELSE IF r.min_optimal * n <= sum /\ sum <= r.max_optimal * n THEN "optimal"
    ELSE "normal"

\* Lines 158-160: the keys of grouped, in order of first appearance in the rows
RECURSIVE GroupedKeys(_, _)
GroupedKeys(rows, seen) ==
    IF rows = <<>> THEN seen
    ELSE LET t == Head(rows).biomarker_type IN
         GroupedKeys(Tail(rows),
                     IF \E i \in 1..Len(seen) : seen[i] = t THEN seen
                     ELSE Append(seen, t))

\* Lines 158-160: grouped[t], the values of type t in row order
RECURSIVE GroupedValues(_, _)
GroupedValues(rows, t) ==
    IF rows = <<>> THEN <<>>
    ELSE IF Head(rows).biomarker_type = t
         THEN <<Head(rows).value>> \o GroupedValues(Tail(rows), t)
         ELSE GroupedValues(Tail(rows), t)

\* Lines 173-180: biomarker_ranges .eq(biomarker_type).single().execute().
\* With no row for the type the query either raises (strict) or yields no data.
RangeLookup(tbl, biomarker, strict) ==
    IF biomarker \in DOMAIN tbl
    THEN [raised |-> FALSE, has_data |-> TRUE, data |-> tbl[biomarker]]
    ELSE IF strict THEN [raised |-> TRUE, has_data |-> FALSE]
    ELSE [raised |-> FALSE, has_data |-> FALSE]

\* Lines 195-235: the metric block written for one biomarker
MetricKey(biomarker) ==
    IF biomarker \in {"blood_pressure_systolic", "blood_pressure_diastolic"}
    THEN "blood_pressure"
    ELSE IF biomarker = "sleep_duration" THEN "sleep"
    ELSE biomarker

\* MetricBlock with the steps total taken as the mean of the step readings
MetricBlockStepsMean(metrics, biomarker, values, status_label) ==
    LET n == Len(values)
        sum == SumSeq(values)
        bp == IF "blood_pressure" \in DOMAIN metrics
              THEN metrics["blood_pressure"]
              ELSE [readings_count |-> n, status |-> status_label]
    IN  IF biomarker = "blood_pressure_systolic"
        THEN ("systolic_avg" :> Round2(sum, n)) @@ bp
        ELSE IF biomarker = "blood_pressure_diastolic"
        THEN ("diastolic_avg" :> Round2(sum, n)) @@ bp
        ELSE IF biomarker = "steps"
        THEN [total |-> sum \div n, goal |-> StepsGoal,
              percentage |-> Round2((sum \div n) * 100, StepsGoal),
              status |-> status_label]
        ELSE IF biomarker = "sleep_duration"
        THEN [hours |-> Round2(sum, n), goal |-> 800, status |-> status_label]
        ELSE [avg |-> Round2(sum, n), min |-> Round2(MinSeq(values), 1),
              max |-> Round2(MaxSeq(values), 1), readings_count |-> n,
              status |-> status_label]

MetricBlock(metrics, biomarker, values, status_label) ==
    LET n == Len(values)
        sum == SumSeq(values)
        bp == IF "blood_pressure" \in DOMAIN metrics
              THEN metrics["blood_pressure"]
              ELSE [readings_count |-> n, status |-> status_label]
    IN  IF biomarker = "blood_pressure_systolic"
        THEN ("systolic_avg" :> Round2(sum, n)) @@ bp
        ELSE IF biomarker = "blood_pressure_diastolic"
        THEN ("diastolic_avg" :> Round2(sum, n)) @@ bp
        ELSE IF biomarker = "steps"
        THEN [total |-> sum, goal |-> StepsGoal,
              percentage |-> Round2(sum * 100, StepsGoal),
              status |-> status_label]
        ELSE IF biomarker = "sleep_duration"
        THEN [hours |-> Round2(sum, n), goal |-> 800, status |-> status_label]
        ELSE [avg |-> Round2(sum, n), min |-> Round2(MinSeq(values), 1),
              max |-> Round2(MaxSeq(values), 1), readings_count |-> n,
              status |-> status_label]

EmptyAcc ==
    [metrics |-> <<>>, insights |-> <<>>, alerts |-> <<>>,
     has_critical |-> FALSE, has_concerning |-> FALSE, raised |-> FALSE]

\* CalcStep with an alert for a concerning status as well
CalcStepAlertOnConcerning(acc, biomarker, values, tbl, strict) ==
    LET n == Len(values)
        sum == SumSeq(values)
        range_resp == RangeLookup(tbl, biomarker, strict)
        status_label == IF range_resp.has_data
                        THEN StatusLabel(range_resp.data, sum, n)
                        ELSE "normal"
    IN  IF range_resp.raised THEN [acc EXCEPT !.raised = TRUE]
        ELSE [metrics |-> (MetricKey(biomarker) :>
                              MetricBlock(acc.metrics, biomarker, values, status_label))
                          @@ acc.metrics,
              insights |-> IF status_label = "optimal"
                           THEN Append(acc.insights,
                                       [biomarker |-> biomarker, text |-> "is in optimal range"])
                           ELSE acc.insights,
              alerts |-> IF status_label \in {"critical", "concerning"}
                         THEN Append(acc.alerts,
                                     [text |-> "Critical", biomarker |-> biomarker,
                                      value |-> Round2(sum, n)])
                         ELSE acc.alerts,
              has_critical |-> acc.has_critical \/ status_label = "critical",
              has_concerning |-> acc.has_concerning \/ status_label = "concerning",
              raised |-> FALSE]

\* Lines 168-242: one iteration of the loop over grouped.items()
CalcStep(acc, biomarker, values, tbl, strict) ==
    LET n == Len(values)
        sum == SumSeq(values)
        range_resp == RangeLookup(tbl, biomarker, strict)
        status_label == IF range_resp.has_data
                        THEN StatusLabel(range_resp.data, sum, n)
                        ELSE "normal"
    IN  IF range_resp.raised THEN [acc EXCEPT !.raised = TRUE]
        ELSE [metrics |-> (MetricKey(biomarker) :>
                              MetricBlock(acc.metrics, biomarker, values, status_label))
                          @@ acc.metrics,
              insights |-> IF status_label = "optimal"
                           THEN Append(acc.insights,
                                       [biomarker |-> biomarker, text |-> "is in optimal range"])
                           ELSE acc.insights,
              alerts |-> IF status_label = "critical"
                         THEN Append(acc.alerts,
                                     [text |-> "Critical", biomarker |-> biomarker,
                                      value |-> Round2(sum, n)])
                         ELSE acc.alerts,
              has_critical |-> acc.has_critical \/ status_label = "critical",
              has_concerning |-> acc.has_concerning \/ status_label = "concerning",
              raised |-> FALSE]

RECURSIVE CalcLoop(_, _, _, _, _)
CalcLoop(acc, keys, rows, tbl, strict) ==
    IF keys = <<>> \/ acc.raised THEN acc
    ELSE CalcLoop(CalcStep(acc, Head(keys), GroupedValues(rows, Head(keys)), tbl, strict),
                  Tail(keys), rows, tbl, strict)

\* Lines 244-248
OverallStatus(has_critical, has_concerning) ==
    IF has_critical THEN "critical"
    ELSE IF has_concerning THEN "needs_attention"
    ELSE "good"

\* CalculateDailySummary without the no-data check of lines 152-156
CalculateDailySummaryNoCheck(rows, target_date, summary_type, tbl, strict) ==
    LET keys == GroupedKeys(rows, <<>>)
        acc == CalcLoop(EmptyAcc, keys, rows, tbl, strict)
    IN  IF acc.raised THEN [error |-> "500"]
        ELSE [error |-> "none",
              summary_data |->
                  [date |-> target_date, summary_type |-> summary_type,
                   metrics |-> acc.metrics, insights |-> acc.insights,
                   alerts |-> acc.alerts],
              total_readings |-> Len(rows),
              biomarkers_tracked |-> keys,
              has_critical_values |-> acc.has_critical,
              has_concerning_values |-> acc.has_concerning,
              overall_status |-> OverallStatus(acc.has_critical, acc.has_concerning)]

\* Lines 138-277.  rows: what the biomarkers query returned, in the order it
\* returned them.  error: "none", or the status code of the HTTPException.
CalculateDailySummary(rows, target_date, summary_type, tbl, strict) ==
    IF rows = <<>>
    THEN [error |-> "404"]
    ELSE LET keys == GroupedKeys(rows, <<>>)
             acc == CalcLoop(EmptyAcc, keys, rows, tbl, strict)
         IN  IF acc.raised THEN [error |-> "500"]
             ELSE [error |-> "none",
                   summary_data |->
                       [date |-> target_date, summary_type |-> summary_type,
                        metrics |-> acc.metrics, insights |-> acc.insights,
                        alerts |-> acc.alerts],
                   total_readings |-> Len(rows),
                   biomarkers_tracked |-> keys,
                   has_critical_values |-> acc.has_critical,
                   has_concerning_values |-> acc.has_concerning,
                   overall_status |-> OverallStatus(acc.has_critical, acc.has_concerning)]

-----------------------------------------------------------------------------
(* Tables *)

\* Bounds of the model
MaxBiomarkers == 2
MaxSummaries == 2

\* The range rows of the stored table: heart_rate as in the example of
\* app/schemas/biomarker.py; glucose, steps and sleep have no row.
StoredRanges ==
    [heart_rate |-> RangeRow(40, 60, 60, 80, 100, 120),
     blood_pressure_systolic |-> RangeRow(70, 90, 90, 120, 140, 180),
     blood_pressure_diastolic |-> RangeRow(40, 60, 60, 80, 90, 120)]

\* The stored table with a row for steps as well
RangesWithSteps ==
    [heart_rate |-> RangeRow(40, 60, 60, 80, 100, 120),
     blood_pressure_systolic |-> RangeRow(70, 90, 90, 120, 140, 180),
     blood_pressure_diastolic |-> RangeRow(40, 60, 60, 80, 90, 120),
     steps |-> RangeRow(0, 2000, 7000, 12000, 20000, 50000)]

\* recorded_at: the day, and whether the time of day lies after 23:59:59
RecordedAt(d, tail) == [date |-> d, after_last_second |-> tail]

Reading(user_id, biomarker_type, value, recorded_at) ==
    [user_id |-> user_id, biomarker_type |-> biomarker_type,
     value |-> value, recorded_at |-> recorded_at]

\* The readings the ingestion draws from: against StoredRanges heart_rate 70
\* and systolic 110 are optimal, heart_rate 130 is critical, and glucose has
\* no range row.
IngestSamples ==
    {Reading("u1", "heart_rate", 70, RecordedAt(1, FALSE)),
     Reading("u1", "blood_pressure_systolic", 110, RecordedAt(1, FALSE)),
     Reading("u2", "glucose", 100, RecordedAt(1, FALSE)),
     Reading("u1", "heart_rate", 130, RecordedAt(2, FALSE))}

\* .gte("recorded_at", f"{d}T00:00:00").lte("recorded_at", f"{d}T23:59:59")
InWindow(recorded_at, d) ==
    recorded_at.date = d /\ ~recorded_at.after_last_second

\* Lines 26-35: the users with a reading in the window of target_date
UserIds(bio, target_date) ==
    {r.user_id : r \in {x \in bio : InWindow(x.recorded_at, target_date)}}

\* Lines 142-150: the readings of one user in the window of target_date
DayReadings(bio, user_id, target_date) ==
    {r \in bio : r.user_id = user_id /\ InWindow(r.recorded_at, target_date)}

\* The orders in which a query without ORDER BY may return a set of rows
Orderings(S) ==
    {s \in [1..Cardinality(S) -> S] : \A i, j \in 1..Cardinality(S) : s[i] = s[j] => i = j}

\* select("biomarker_type,value"): the columns the calculator reads
Projected(s) ==
    [i \in 1..Len(s) |-> [biomarker_type |-> s[i].biomarker_type, value |-> s[i].value]]

\* Lines 47-55 and 106-114: the row a pass inserts
NewSummaryRow(st, user_id, target_date, summary_type, result, email_sent) ==
    [id |-> Len(st) + 1,
     user_id |-> user_id,
     summary_date |-> target_date,
     summary_type |-> summary_type,
     summary_data |-> result.summary_data,
     overall_status |-> result.overall_status,
     email_sent |-> email_sent,
     email_sent_at |-> Null,
     created_at |-> Len(st) + 1]

\* Lines 40-59 and 99-116: the loop of a pass over user_ids, in the order todo.
\* A calculator or insert exception leaves the loop.
RECURSIVE PassLoop(_, _, _, _, _, _, _, _, _, _)
PassLoop(st, todo, rowsOf, target_date, summary_type, email_sent, tbl, strict, created, alerts) ==
    IF todo = <<>>
    THEN [summaries |-> st, raised |-> FALSE, created |-> created, alerts |-> alerts]
    ELSE LET user_id == Head(todo)
             result == CalculateDailySummary(Projected(rowsOf[user_id]), target_date,
                                             summary_type, tbl, strict)
         IN  IF result.error # "none"
             THEN [summaries |-> st, raised |-> TRUE, created |-> created, alerts |-> alerts]
             ELSE PassLoop(Append(st, NewSummaryRow(st, user_id, target_date,
                                                    summary_type, result, email_sent)),
                           Tail(todo), rowsOf, target_date, summary_type, email_sent,
                           tbl, strict, created + 1,
                           IF result.has_critical_values THEN alerts + 1 ELSE alerts)

\* The ways the calculator's query may order each user's rows
RowOrders(bio, user_ids, target_date) ==
    {f \in [user_ids -> UNION {Orderings(DayReadings(bio, u, target_date)) : u \in user_ids}] :
        \A u \in user_ids : f[u] \in Orderings(DayReadings(bio, u, target_date))}

-----------------------------------------------------------------------------
(* Operations.  Each handler is an operator from the tables, its arguments  *)
(* and the choices the store makes for it (the order of returned rows, the  *)
(* outcome of single() on no row) to the new summaries table and what the   *)
(* caller gets; the action applies it.                                      *)

sysVars == <<today, ranges, biomarkers, summaries>>
pureVars == <<calcIn, calcOut, clsIn, clsOut>>
flightVars == <<regen, pass>>
connVars == <<patients, providers, connections>>
mailVars == <<dispatch, outbox>>

\* The workers that may serve a regenerate_summary request at the same time
Workers == {"w1", "w2"}

Idle == [pc |-> "idle"]

\* biomarker_service.insert_biomarker_data
InsertBiomarkerData(user_id, biomarker_type, value, recorded_at) ==
    /\ Cardinality(biomarkers) < MaxBiomarkers
    /\ biomarker_type \in BiomarkerType
    /\ biomarkers' = biomarkers \cup
           {Reading(user_id, biomarker_type, value, recorded_at)}
    /\ UNCHANGED <<today, ranges, summaries>>
    /\ UNCHANGED pureVars
    /\ UNCHANGED connVars
    /\ UNCHANGED mailVars
    /\ UNCHANGED flightVars

\* Lines 20-21: the morning pass targets yesterday when no date is given
MorningTarget(target) == IF target = NoDate THEN today - 1 ELSE GivenDate(target)

\* EveningTarget with the default of the morning pass
EveningTargetYesterday(target) == IF target = NoDate THEN today - 1 ELSE GivenDate(target)

\* Lines 81-82: the evening pass targets today when no date is given
EveningTarget(target) == IF target = NoDate THEN today ELSE GivenDate(target)

\* generate_morning_briefing(target_date): lines 19-73
MorningBriefingCall(st, target, todo, rowsOf, strict) ==
    LET target_date == MorningTarget(target)
        run == PassLoop(st, todo, rowsOf, target_date,
                        "morning_briefing", FALSE, ranges, strict, 0, 0)
    IN  IF run.raised
        THEN [summaries |-> run.summaries, outcome |-> "raised"]
        ELSE [summaries |-> run.summaries, outcome |-> "returned",
              total_users_processed |-> Len(todo),
              summaries_created |-> run.created,
              users_with_alerts |-> run.alerts]

\* generate_evening_summary(target_date): lines 80-129
EveningSummaryCall(st, target, todo, rowsOf, strict) ==
    LET target_date == EveningTarget(target)
        run == PassLoop(st, todo, rowsOf, target_date,
                        "evening_summary", TRUE, ranges, strict, 0, 0)
    IN  IF run.raised
        THEN [summaries |-> run.summaries, outcome |-> "raised"]
        ELSE [summaries |-> run.summaries, outcome |-> "returned",
              total_users_processed |-> Len(todo),
              summaries_created |-> run.created]

GenerateMorningBriefing(target) ==
    LET user_ids == UserIds(biomarkers, MorningTarget(target))
    IN  /\ Len(summaries) + Cardinality(user_ids) <= MaxSummaries
        /\ \E todo \in Orderings(user_ids), strict \in BOOLEAN :
           \E rowsOf \in RowOrders(biomarkers, user_ids, MorningTarget(target)) :
              summaries' = MorningBriefingCall(summaries, target, todo, rowsOf, strict).summaries
        /\ UNCHANGED <<today, ranges, biomarkers>>
        /\ UNCHANGED pureVars
        /\ UNCHANGED connVars
        /\ UNCHANGED mailVars
        /\ UNCHANGED flightVars

GenerateEveningSummary(target) ==
    LET user_ids == UserIds(biomarkers, EveningTarget(target))
    IN  /\ Len(summaries) + Cardinality(user_ids) <= MaxSummaries
        /\ \E todo \in Orderings(user_ids), strict \in BOOLEAN :
           \E rowsOf \in RowOrders(biomarkers, user_ids, EveningTarget(target)) :
              summaries' = EveningSummaryCall(summaries, target, todo, rowsOf, strict).summaries
        /\ UNCHANGED <<today, ranges, biomarkers>>
        /\ UNCHANGED pureVars
        /\ UNCHANGED connVars
        /\ UNCHANGED mailVars
        /\ UNCHANGED flightVars

\* Lines 512-520: the ids of the rows with this key
ExistingIds(st, user_id, target_date, summary_type) ==
    {i \in 1..Len(st) : /\ st[i].user_id = user_id
                        /\ st[i].summary_date = target_date
                        /\ st[i].summary_type = summary_type}

\* RegenerateUpdate as a delete and re-insert: the row gets a new created_at
RegenerateUpdateRestamp(st, id, result) ==
    [st EXCEPT ![id] = [@ EXCEPT !.summary_data = result.summary_data,
                                 !.overall_status = result.overall_status,
                                 !.email_sent = FALSE,
                                 !.email_sent_at = Null,
                                 !.created_at = Len(st) + 1]]

\* Lines 525-531: the update of row id by regenerate_summary
RegenerateUpdate(st, id, result) ==
    [st EXCEPT ![id] = [@ EXCEPT !.summary_data = result.summary_data,
                                 !.overall_status = result.overall_status,
                                 !.email_sent = FALSE,
                                 !.email_sent_at = Null]]

\* Lines 535-543: the insert of regenerate_summary
RegenerateInsert(st, user_id, target_date, summary_type, result) ==
    Append(st, NewSummaryRow(st, user_id, target_date, summary_type, result, FALSE))

\* Lines 547-560: the record regenerate_summary returns
RegenerateResponse(st, id, result) ==
    [summaries |-> st, outcome |-> "returned", id |-> id,
     summary_data |-> st[id].summary_data,
     overall_status |-> st[id].overall_status,
     email_sent |-> st[id].email_sent,
     email_sent_at |-> st[id].email_sent_at,
     total_readings |-> result.total_readings,
     biomarkers_tracked |-> result.biomarkers_tracked,
     has_critical_values |-> result.has_critical_values,
     has_concerning_values |-> result.has_concerning_values]

\* The rows existing.data[0] may be: any row with the key
FirstChoices(st, user_id, target_date, summary_type) ==
    IF ExistingIds(st, user_id, target_date, summary_type) = {} THEN {0}
    ELSE ExistingIds(st, user_id, target_date, summary_type)

\* RegenerateCall with the notification state of the existing row reset before
\* the calculator has run
RegenerateCallResetFirst(st, user_id, target_date, summary_type, rows, strict, first) ==
    LET result == CalculateDailySummary(Projected(rows), target_date,
                                        summary_type, ranges, strict)
        reset == IF ExistingIds(st, user_id, target_date, summary_type) # {}
                 THEN [st EXCEPT ![first] = [@ EXCEPT !.email_sent = FALSE,
                                                      !.email_sent_at = Null]]
                 ELSE st
    IN  IF result.error # "none"
        THEN [summaries |-> reset, outcome |-> "raised", error |-> result.error]
        ELSE IF ExistingIds(st, user_id, target_date, summary_type) # {}
        THEN RegenerateResponse(RegenerateUpdate(st, first, result), first, result)
        ELSE RegenerateResponse(
                 RegenerateInsert(st, user_id, target_date, summary_type, result),
                 Len(st) + 1, result)

\* regenerate_summary(user_id, target_date, summary_type): lines 503-570.
\* rows: the calculator's rows as returned; first: the id of existing.data[0].
RegenerateCall(st, user_id, target_date, summary_type, rows, strict, first) ==
    LET result == CalculateDailySummary(Projected(rows), target_date,
                                        summary_type, ranges, strict)
    IN  IF result.error # "none"
        THEN [summaries |-> st, outcome |-> "raised", error |-> result.error]
        ELSE IF ExistingIds(st, user_id, target_date, summary_type) # {}
        THEN RegenerateResponse(RegenerateUpdate(st, first, result), first, result)
        ELSE RegenerateResponse(
                 RegenerateInsert(st, user_id, target_date, summary_type, result),
                 Len(st) + 1, result)

RegenerateSummary(user_id, target_date, summary_type) ==
    /\ \/ ExistingIds(summaries, user_id, target_date, summary_type) # {}
       \/ Len(summaries) < MaxSummaries
    /\ \E rows \in Orderings(DayReadings(biomarkers, user_id, target_date)),
          strict \in BOOLEAN,
          first \in FirstChoices(summaries, user_id, target_date, summary_type) :
          summaries' = RegenerateCall(summaries, user_id, target_date, summary_type,
                                      rows, strict, first).summaries
    /\ UNCHANGED <<today, ranges, biomarkers>>
    /\ UNCHANGED pureVars
    /\ UNCHANGED connVars
    /\ UNCHANGED mailVars
    /\ UNCHANGED flightVars

\* PendingIds without the summary_type filter
PendingIdsAnyType(st) ==
    {i \in 1..Len(st) : ~st[i].email_sent}

\* PendingIds restricted to the rows of yesterday
PendingIdsYesterdayOnly(st) ==
    {i \in 1..Len(st) : /\ st[i].summary_type = "morning_briefing"
                        /\ ~st[i].email_sent
                        /\ st[i].summary_date = today - 1}

\* Lines 290-297: the rows the dispatcher selects
PendingIds(st) ==
    {i \in 1..Len(st) : st[i].summary_type = "morning_briefing" /\ ~st[i].email_sent}

\* MarkSent on every pending row, whatever its send reported
MarkSentEveryRow(st, sent) ==
    [i \in 1..Len(st) |->
        IF i \in PendingIds(st)
        THEN [st[i] EXCEPT !.email_sent = TRUE, !.email_sent_at = "now"]
        ELSE st[i]]

\* Lines 319-324: the update of the rows whose send reported success
MarkSent(st, sent) ==
    [i \in 1..Len(st) |->
        IF i \in sent
        THEN [st[i] EXCEPT !.email_sent = TRUE, !.email_sent_at = "now"]
        ELSE st[i]]

\* Lines 301-335: what the body of the loop can come to for one selected row.
\*   user_missing   the users lookup found no row (303-306, 330, or single()
\*                  raised and the exception was caught at 333)
\*   send_raised    send_morning_briefing raised, caught at 333
\*   send_false     send_morning_briefing returned False (327)
\*   sent           it returned True and the update of 321-324 was done
\*   update_raised  it returned True and the update raised, caught at 333
RowOutcomes == {"user_missing", "send_raised", "send_false", "sent", "update_raised"}

\* Lines 313-317: the email handed to the email service for row id
Email(st, id) == [id |-> id, summary_data |-> st[id].summary_data]

\* send_morning_briefing_emails(): lines 288-344.  outcomeOf gives, for each
\* selected row, what the body of the loop came to.
SendEmailsCall(st, outcomeOf) ==
    LET selected == PendingIds(st)
        sent == {i \in selected : outcomeOf[i] = "sent"}
        handed == {i \in selected : outcomeOf[i] \in {"sent", "update_raised"}}
    IN  [summaries |-> MarkSent(st, sent), outcome |-> "returned",
         sent_count |-> Cardinality(sent),
         emails |-> {Email(st, i) : i \in handed}]

SendMorningBriefingEmails ==
    /\ \E outcomeOf \in [PendingIds(summaries) -> RowOutcomes] :
          summaries' = SendEmailsCall(summaries, outcomeOf).summaries
    /\ UNCHANGED <<today, ranges, biomarkers>>
    /\ UNCHANGED pureVars
    /\ UNCHANGED connVars
    /\ UNCHANGED mailVars
    /\ UNCHANGED flightVars

\* Lines 384-396 and 456-466: the metric blocks the reads count, those with a
\* readings_count and the blocks steps and sleep
CountedKeys(metrics) ==
    {key \in DOMAIN metrics :
        "readings_count" \in DOMAIN metrics[key] \/ key \in {"steps", "sleep"}}

\* Lines 384-396 and 456-466: total_readings as the reads add it up over keys
RECURSIVE CountedReadings(_, _)
CountedReadings(metrics, keys) ==
    IF keys = {} THEN 0
    ELSE LET key == CHOOSE k \in keys : TRUE
         IN  (IF "readings_count" \in DOMAIN metrics[key]
              THEN metrics[key].readings_count
              ELSE 1)
             + CountedReadings(metrics, keys \ {key})

\* Lines 380-403 and 453-472: the row with the fields the reads add to it.
\* biomarkers_tracked is the set of the keys of the list the code builds.
WithMetadata(row) ==
    LET metrics == row.summary_data.metrics
        alerts == row.summary_data.alerts
    IN  [total_readings |-> CountedReadings(metrics, CountedKeys(metrics)),
         biomarkers_tracked |-> CountedKeys(metrics),
         has_critical_values |-> \E i \in 1..Len(alerts) : alerts[i].text = "Critical",
         has_concerning_values |-> FALSE]
        @@ row

\* get_user_summary: lines 365-408; summary_type is "" when no filter is given
GetUserSummary(st, user_id, summary_date, summary_type) ==
    LET ids == {i \in 1..Len(st) : /\ st[i].user_id = user_id
                                   /\ st[i].summary_date = summary_date
                                   /\ (summary_type # "" => st[i].summary_type = summary_type)}
    IN  IF ids = {} THEN [found |-> FALSE]
        ELSE LET id == CHOOSE i \in ids : \A j \in ids : st[j].created_at <= st[i].created_at
             IN  [found |-> TRUE, row |-> WithMetadata(st[id])]

-----------------------------------------------------------------------------
(* The service *)

Init ==
    /\ today \in {2, 3}
    /\ ranges = StoredRanges
    /\ biomarkers = {}
    /\ summaries = <<>>
    /\ regen = [w \in Workers |-> Idle]
    /\ pass = Idle
    /\ patients = {}
    /\ providers = {}
    /\ connections = <<>>
    /\ dispatch = Idle
    /\ outbox = {}
    /\ calcIn = <<>>
    /\ calcOut = [error |-> "unset"]
    /\ clsIn = [r |-> RangeRow(0, 0, 0, 0, 0, 0), sum |-> 0, n |-> 1]
    /\ clsOut = "unset"

Next ==
    \/ \E r \in IngestSamples :
          InsertBiomarkerData(r.user_id, r.biomarker_type, r.value, r.recorded_at)
    \/ \E target \in OptionalDates : GenerateMorningBriefing(target)
    \/ \E target \in OptionalDates : GenerateEveningSummary(target)
    \/ \E u \in Users, d \in Dates, k \in SummaryType : RegenerateSummary(u, d, k)
    \/ SendMorningBriefingEmails

Spec == Init /\ [][Next]_vars

-----------------------------------------------------------------------------
(* The classifier alone: lines 182-193 applied to one range row and one mean *)

MaxThreshold == 5
MaxCount == 2

Thresholds == 0..MaxThreshold

NestedRanges ==
    {r \in [critical_low : Thresholds, min_normal : Thresholds,
            min_optimal : Thresholds, max_optimal : Thresholds,
            max_normal : Thresholds, critical_high : Thresholds] : Nested(r)}

ClassifyInit ==
    /\ today = 2
    /\ ranges = StoredRanges
    /\ biomarkers = {}
    /\ summaries = <<>>
    /\ regen = [w \in Workers |-> Idle]
    /\ pass = Idle
    /\ patients = {}
    /\ providers = {}
    /\ connections = <<>>
    /\ dispatch = Idle
    /\ outbox = {}
    /\ calcIn = <<>>
    /\ calcOut = [error |-> "unset"]
    /\ clsIn \in {[r |-> r, sum |-> sum, n |-> n] :
                     r \in NestedRanges, n \in 1..MaxCount,
                     sum \in 0..((MaxThreshold + 1) * MaxCount)}
    /\ clsIn.sum <= (MaxThreshold + 1) * clsIn.n
    /\ clsOut = "unset"

Classify ==
    /\ clsOut = "unset"
    /\ clsOut' = StatusLabel(clsIn.r, clsIn.sum, clsIn.n)
    /\ UNCHANGED <<clsIn, calcIn, calcOut>>
    /\ UNCHANGED sysVars
    /\ UNCHANGED connVars
    /\ UNCHANGED mailVars
    /\ UNCHANGED flightVars

ClassifyNext == Classify

ClassifySpec == ClassifyInit /\ [][ClassifyNext]_vars

-----------------------------------------------------------------------------
(* The calculator alone: calculate_daily_summary on the rows of one user and *)
(* one day, in the order the store returned them                            *)

MaxRows == 3

\* The (biomarker_type, value) rows the day is drawn from: against
\* StoredRanges systolic 110 and diastolic 70 are optimal, systolic 190 is
\* critical, diastolic 95 is concerning; glucose has no range row, steps has
\* one in RangesWithSteps only.
CalcSamples ==
    {[biomarker_type |-> "heart_rate", value |-> 70],
     [biomarker_type |-> "heart_rate", value |-> 71],
     [biomarker_type |-> "heart_rate", value |-> 130],
     [biomarker_type |-> "blood_pressure_systolic", value |-> 110],
     [biomarker_type |-> "blood_pressure_systolic", value |-> 190],
     [biomarker_type |-> "blood_pressure_diastolic", value |-> 70],
     [biomarker_type |-> "blood_pressure_diastolic", value |-> 95],
     [biomarker_type |-> "glucose", value |-> 100],
     [biomarker_type |-> "steps", value |-> 4000]}

CalcInit ==
    /\ today = 2
    /\ ranges \in {StoredRanges, RangesWithSteps}
    /\ biomarkers = {}
    /\ summaries = <<>>
    /\ regen = [w \in Workers |-> Idle]
    /\ pass = Idle
    /\ patients = {}
    /\ providers = {}
    /\ connections = <<>>
    /\ dispatch = Idle
    /\ outbox = {}
    /\ calcIn \in UNION {[1..n -> CalcSamples] : n \in 1..MaxRows}
    /\ calcOut = [error |-> "unset"]
    /\ clsIn = [r |-> RangeRow(0, 0, 0, 0, 0, 0), sum |-> 0, n |-> 1]
    /\ clsOut = "unset"

Calculate(strict) ==
    /\ calcOut.error = "unset"
    /\ calcOut' = CalculateDailySummary(calcIn, 1, "morning_briefing", ranges, strict)
    /\ UNCHANGED <<calcIn, clsIn, clsOut>>
    /\ UNCHANGED sysVars
    /\ UNCHANGED connVars
    /\ UNCHANGED mailVars
    /\ UNCHANGED flightVars

CalcNext == \E strict \in BOOLEAN : Calculate(strict)

CalcSpec == CalcInit /\ [][CalcNext]_vars

-----------------------------------------------------------------------------
(* Several workers on one database. Within a worker a handler runs to its   *)
(* end; handlers of different workers interleave at their execute() calls.  *)
(* One step per query: the calculator's reads, the select of the existing   *)
(* rows, the update or insert, the final select.                            *)

\* regenerate_summary, lines 505-509: the calculator; an exception ends the call
RegenStart(w, user_id, target_date, summary_type) ==
    /\ regen[w].pc = "idle"
    /\ \E rows \in Orderings(DayReadings(biomarkers, user_id, target_date)),
          strict \in BOOLEAN :
          LET result == CalculateDailySummary(Projected(rows), target_date,
                                              summary_type, ranges, strict)
          IN  /\ result.error = "none"
              /\ regen' = [regen EXCEPT ![w] =
                              [pc |-> "calculated", user_id |-> user_id,
                               target_date |-> target_date,
                               summary_type |-> summary_type, result |-> result]]
    /\ UNCHANGED <<sysVars, pass, pureVars, connVars, mailVars>>

\* regenerate_summary, lines 512-520: select the ids with the key
RegenSelect(w) ==
    /\ regen[w].pc = "calculated"
    /\ \E first \in FirstChoices(summaries, regen[w].user_id, regen[w].target_date,
                                 regen[w].summary_type) :
          regen' = [regen EXCEPT ![w] =
                       [pc |-> "selected", user_id |-> regen[w].user_id,
                        target_date |-> regen[w].target_date,
                        summary_type |-> regen[w].summary_type,
                        result |-> regen[w].result, first |-> first]]
    /\ UNCHANGED <<sysVars, pass, pureVars, connVars, mailVars>>

\* regenerate_summary, lines 523-544: update existing.data[0], or insert
RegenWrite(w) ==
    /\ regen[w].pc = "selected"
    /\ regen[w].first = 0 => Len(summaries) < MaxSummaries
    /\ summaries' =
          IF regen[w].first # 0
          THEN RegenerateUpdate(summaries, regen[w].first, regen[w].result)
          ELSE RegenerateInsert(summaries, regen[w].user_id, regen[w].target_date,
                                regen[w].summary_type, regen[w].result)
    /\ regen' = [regen EXCEPT ![w] =
                    [pc |-> "written", user_id |-> regen[w].user_id,
                     target_date |-> regen[w].target_date,
                     summary_type |-> regen[w].summary_type,
                     result |-> regen[w].result,
                     id |-> IF regen[w].first # 0 THEN regen[w].first
                            ELSE Len(summaries) + 1]]
    /\ UNCHANGED <<today, ranges, biomarkers, pass, pureVars, connVars, mailVars>>

\* regenerate_summary, lines 547-562: select the row by id and return
RegenReturn(w) ==
    /\ regen[w].pc = "written"
    /\ regen' = [regen EXCEPT ![w] = Idle]
    /\ UNCHANGED <<sysVars, pass, pureVars, connVars, mailVars>>

\* A pass, lines 19-37 and 80-97: the target date and the user ids
PassStart(summary_type, target) ==
    /\ pass.pc = "idle"
    /\ LET target_date == IF summary_type = "morning_briefing"
                          THEN MorningTarget(target) ELSE EveningTarget(target)
       IN  pass' = [pc |-> "loop", summary_type |-> summary_type,
                    target_date |-> target_date,
                    todo |-> UserIds(biomarkers, target_date),
                    done |-> {}]
    /\ UNCHANGED <<sysVars, regen, pureVars, connVars, mailVars>>

\* A pass, lines 40-45 and 99-104: the calculator for the next user id; an
\* exception ends the pass
PassCalculate(user_id) ==
    /\ pass.pc = "loop"
    /\ user_id \in pass.todo
    /\ \E rows \in Orderings(DayReadings(biomarkers, user_id, pass.target_date)),
          strict \in BOOLEAN :
          LET result == CalculateDailySummary(Projected(rows), pass.target_date,
                                              pass.summary_type, ranges, strict)
          IN  pass' = IF result.error # "none" THEN Idle
                      ELSE [pc |-> "insert", summary_type |-> pass.summary_type,
                            target_date |-> pass.target_date, todo |-> pass.todo,
                            done |-> pass.done, user_id |-> user_id,
                            result |-> result]
    /\ UNCHANGED <<sysVars, regen, pureVars, connVars, mailVars>>

\* A pass, lines 47-55 and 106-114: the insert
PassInsert ==
    /\ pass.pc = "insert"
    /\ Len(summaries) < MaxSummaries
    /\ summaries' = Append(summaries,
                           NewSummaryRow(summaries, pass.user_id, pass.target_date,
                                         pass.summary_type, pass.result,
                                         pass.summary_type = "evening_summary"))
    /\ pass' = [pc |-> "loop", summary_type |-> pass.summary_type,
                target_date |-> pass.target_date,
                todo |-> pass.todo \ {pass.user_id},
                done |-> pass.done \cup {pass.user_id}]
    /\ UNCHANGED <<today, ranges, biomarkers, regen, pureVars, connVars, mailVars>>

\* A pass, lines 61-65 and 118-121: the loop is over, the run summary returns
PassReturn ==
    /\ pass.pc = "loop"
    /\ pass.todo = {}
    /\ pass' = Idle
    /\ UNCHANGED <<sysVars, regen, pureVars, connVars, mailVars>>

\* The readings are in the table before the calls start
ConcInit ==
    /\ today = 2
    /\ ranges = StoredRanges
    /\ biomarkers \in {S \in SUBSET IngestSamples : Cardinality(S) = MaxBiomarkers}
    /\ summaries = <<>>
    /\ regen = [w \in Workers |-> Idle]
    /\ pass = Idle
    /\ patients = {}
    /\ providers = {}
    /\ connections = <<>>
    /\ dispatch = Idle
    /\ outbox = {}
    /\ calcIn = <<>>
    /\ calcOut = [error |-> "unset"]
    /\ clsIn = [r |-> RangeRow(0, 0, 0, 0, 0, 0), sum |-> 0, n |-> 1]
    /\ clsOut = "unset"

ConcNext ==
    \/ \E w \in Workers, u \in Users, d \in Dates, k \in SummaryType :
          RegenStart(w, u, d, k)
    \/ \E w \in Workers : RegenSelect(w)
    \/ \E w \in Workers : RegenWrite(w)
    \/ \E w \in Workers : RegenReturn(w)
    \/ \E k \in SummaryType, target \in OptionalDates : PassStart(k, target)
    \/ \E u \in Users : PassCalculate(u)
    \/ PassInsert
    \/ PassReturn

ConcSpec == ConcInit /\ [][ConcNext]_vars

-----------------------------------------------------------------------------
(* What a call can come to in the current state: one result per choice of   *)
(* the store (row orders, iteration order of the user set, single() on no   *)
(* row, which row is existing.data[0])                                      *)

MorningCalls(target) ==
    LET user_ids == UserIds(biomarkers, MorningTarget(target))
    IN  {MorningBriefingCall(summaries, target, todo, rowsOf, strict) :
            todo \in Orderings(user_ids),
            rowsOf \in RowOrders(biomarkers, user_ids, MorningTarget(target)),
            strict \in BOOLEAN}

EveningCalls(target) ==
    LET user_ids == UserIds(biomarkers, EveningTarget(target))
    IN  {EveningSummaryCall(summaries, target, todo, rowsOf, strict) :
            todo \in Orderings(user_ids),
            rowsOf \in RowOrders(biomarkers, user_ids, EveningTarget(target)),
            strict \in BOOLEAN}

RegenerateCalls(st, user_id, target_date, summary_type, strict) ==
    {RegenerateCall(st, user_id, target_date, summary_type, rows, strict, first) :
        rows \in Orderings(DayReadings(biomarkers, user_id, target_date)),
        first \in FirstChoices(st, user_id, target_date, summary_type)}

SameKey(a, b) ==
    /\ a.user_id = b.user_id
    /\ a.summary_date = b.summary_date
    /\ a.summary_type = b.summary_type

\* The rows of st2 that are new or differ from the row of the current table
Written(st2) ==
    {i \in 1..Len(st2) : i > Len(summaries) \/ st2[i] # summaries[i]}

HasReadingOn(user_id, d) ==
    \E r \in biomarkers : r.user_id = user_id /\ r.recorded_at.date = d

-----------------------------------------------------------------------------
(* Properties *)

\* C1: after any sequence of morning passes, evening passes and
\* regenerate_summary calls the table holds at most one row for each
\* (user_id, summary_date, summary_type).
C1_OneRowPerKey ==
    \A i, j \in 1..Len(summaries) : SameKey(summaries[i], summaries[j]) => i = j

\* C2: in a pass over several eligible users in which the calculator fails
\* for one user, the pass does not raise: it returns its run summary and has
\* persisted a row for every eligible user whose own calculation succeeds.
C2_PassIsolatesFailures ==
    \A target \in OptionalDates :
        LET d == MorningTarget(target)
            user_ids == UserIds(biomarkers, d)
        IN  Cardinality(user_ids) >= 2 =>
            \A todo \in Orderings(user_ids), strict \in BOOLEAN :
            \A rowsOf \in RowOrders(biomarkers, user_ids, d) :
                LET c == MorningBriefingCall(summaries, target, todo, rowsOf, strict)
                    ok(u) == CalculateDailySummary(Projected(rowsOf[u]), d,
                                 "morning_briefing", ranges, strict).error = "none"
                IN  (\E u \in user_ids : ~ok(u)) =>
                        /\ c.outcome = "returned"
                        /\ \A u \in user_ids : ok(u) =>
                              \E i \in (Len(summaries) + 1)..Len(c.summaries) :
                                  c.summaries[i].user_id = u

\* C3: no summary row is ever written for a user with zero readings on the
\* row's summary_date: every row of the table belongs to a (user, date) with
\* a reading, and no morning pass, evening pass or regenerate_summary call
\* inserts or updates a row of a (user, date) without one.
C3_NoSummaryWithoutReadings ==
    /\ \A i \in 1..Len(summaries) :
           HasReadingOn(summaries[i].user_id, summaries[i].summary_date)
    /\ \A target \in OptionalDates :
       \A c \in MorningCalls(target) \cup EveningCalls(target) :
       \A i \in Written(c.summaries) :
           HasReadingOn(c.summaries[i].user_id, c.summaries[i].summary_date)
    /\ \A u \in Users, d \in Dates, k \in SummaryType, strict \in BOOLEAN :
       \A c \in RegenerateCalls(summaries, u, d, k, strict) :
           /\ \A i \in Written(c.summaries) :
                  HasReadingOn(c.summaries[i].user_id, c.summaries[i].summary_date)
           /\ ~HasReadingOn(u, d) => c.outcome = "raised" /\ c.summaries = summaries

\* C3 witness: a row has been persisted for a user with readings while another
\* (user, date) has none and its regenerate_summary is refused.
C3_Witness ==
    /\ Len(summaries) >= 1
    /\ \E u \in Users, d \in Dates :
          /\ ~HasReadingOn(u, d)
          /\ \A c \in RegenerateCalls(summaries, u, d, "morning_briefing", TRUE) :
                 c.outcome = "raised"

\* C4: after regenerate_summary(user, date, kind) succeeds,
\* get_user_summary(user, date, kind) returns the summary_data just
\* calculated, with email_sent = false and email_sent_at = null, whatever rows
\* existed for the key before the call.
C4_RegenerateThenRead ==
    \A u \in Users, d \in Dates, k \in SummaryType, strict \in BOOLEAN :
    \A c \in RegenerateCalls(summaries, u, d, k, strict) :
        c.outcome = "returned" =>
            LET got == GetUserSummary(c.summaries, u, d, k)
            IN  /\ got.found
                /\ got.row.summary_data = c.summary_data
                /\ got.row.email_sent = FALSE
                /\ got.row.email_sent_at = Null

\* C5: two regenerate_summary calls for the same (user, date, kind) with no
\* change of readings or ranges in between leave identical summary_data,
\* whatever order the store returns the readings in.
C5_RegenerateTwiceSameData ==
    \A u \in Users, d \in Dates, k \in SummaryType, strict \in BOOLEAN :
    \A c1 \in RegenerateCalls(summaries, u, d, k, strict) :
        c1.outcome = "returned" =>
            \A c2 \in RegenerateCalls(c1.summaries, u, d, k, strict) :
                /\ c2.outcome = "returned"
                /\ c2.summary_data = c1.summary_data

\* What one writer of the key writes: summary_data and overall_status of one
\* calculator result
WriterPairs(user_id, target_date, summary_type) ==
    {<<res.summary_data, res.overall_status>> :
        res \in {CalculateDailySummary(Projected(rows), target_date, summary_type,
                                       ranges, strict) :
                    rows \in Orderings(DayReadings(biomarkers, user_id, target_date)),
                    strict \in BOOLEAN} \ {[error |-> "500"], [error |-> "404"]}}

AtomicallyReplaced(user_id, target_date, summary_type) ==
    LET ids == ExistingIds(summaries, user_id, target_date, summary_type)
    IN  /\ Cardinality(ids) = 1
        /\ \A i \in ids :
               <<summaries[i].summary_data, summaries[i].overall_status>>
                   \in WriterPairs(user_id, target_date, summary_type)

\* C6: when a regenerate_summary call interleaves with another one or with a
\* batch pass on the same (user, date, kind), then once both have written the
\* table holds exactly one row for the key, with summary_data and
\* overall_status of a single writer.
C6_AtomicReplace ==
    /\ \A w1, w2 \in Workers :
          (/\ w1 # w2
           /\ regen[w1].pc = "written" /\ regen[w2].pc = "written"
           /\ regen[w1].user_id = regen[w2].user_id
           /\ regen[w1].target_date = regen[w2].target_date
           /\ regen[w1].summary_type = regen[w2].summary_type)
          => AtomicallyReplaced(regen[w1].user_id, regen[w1].target_date,
                                regen[w1].summary_type)
    /\ \A w \in Workers :
          (/\ regen[w].pc = "written"
           /\ pass.pc = "loop"
           /\ regen[w].user_id \in pass.done
           /\ regen[w].target_date = pass.target_date
           /\ regen[w].summary_type = pass.summary_type)
          => AtomicallyReplaced(regen[w].user_id, regen[w].target_date,
                                regen[w].summary_type)

\* C7: every evening_summary row has email_sent = true, after any sequence of
\* evening passes, regenerate_summary calls and dispatcher runs.
C7_EveningNeverPending ==
    \A i \in 1..Len(summaries) :
        summaries[i].summary_type = "evening_summary" => summaries[i].email_sent = TRUE

\* C8: every row a morning pass creates has summary_type morning_briefing,
\* summary_date equal to the target date (yesterday when none is given) and
\* email_sent = false; every row an evening pass creates has summary_type
\* evening_summary, summary_date equal to its target date (today when none is
\* given) and email_sent = true (not queued); a pass changes no older row.
C8_PassRows ==
    \A target \in OptionalDates :
        /\ \A c \in MorningCalls(target) :
           \A i \in Written(c.summaries) :
               /\ i > Len(summaries)
               /\ c.summaries[i].summary_type = "morning_briefing"
               /\ c.summaries[i].summary_date =
                      (IF target = NoDate THEN today - 1 ELSE GivenDate(target))
               /\ c.summaries[i].email_sent = FALSE
        /\ \A c \in EveningCalls(target) :
           \A i \in Written(c.summaries) :
               /\ i > Len(summaries)
               /\ c.summaries[i].summary_type = "evening_summary"
               /\ c.summaries[i].summary_date =
                      (IF target = NoDate THEN today ELSE GivenDate(target))
               /\ c.summaries[i].email_sent = TRUE

\* C8 witness: both passes have run without a date: the table holds a pending
\* morning_briefing row for yesterday and a not-queued evening_summary row for
\* today.
C8_Witness ==
    /\ \E i \in 1..Len(summaries) :
          /\ summaries[i].summary_type = "morning_briefing"
          /\ summaries[i].summary_date = today - 1
          /\ ~summaries[i].email_sent
    /\ \E i \in 1..Len(summaries) :
          /\ summaries[i].summary_type = "evening_summary"
          /\ summaries[i].summary_date = today
          /\ summaries[i].email_sent

\* C9: in every calculator result overall_status is critical exactly when some
\* metric block has status critical, otherwise needs_attention exactly when
\* some block has status concerning, otherwise good.
C9_OverallStatusFoldsBlocks ==
    calcOut.error = "none" =>
        LET m == calcOut.summary_data.metrics
            anyCritical == \E key \in DOMAIN m : m[key].status = "critical"
            anyConcerning == \E key \in DOMAIN m : m[key].status = "concerning"
        IN  calcOut.overall_status =
                (IF anyCritical THEN "critical"
                 ELSE IF anyConcerning THEN "needs_attention"
                 ELSE "good")

\* C10: for every mean v = sum/n and every nested range row the status is
\* exactly one of optimal, normal, concerning, critical, by the precedence:
\* critical if v < critical_low or v > critical_high; else concerning if
\* v < min_normal or v > max_normal; else optimal if
\* min_optimal <= v <= max_optimal; else normal.
C10_ClassifyPrecedence ==
    (clsOut # "unset" /\ Nested(clsIn.r)) =>
        LET r == clsIn.r
            Below(t) == clsIn.sum < t * clsIn.n      \* v < t
            Above(t) == clsIn.sum > t * clsIn.n      \* v > t
            isCritical == Below(r.critical_low) \/ Above(r.critical_high)
            isConcerning == Below(r.min_normal) \/ Above(r.max_normal)
            isOptimal == ~Below(r.min_optimal) /\ ~Above(r.max_optimal)
        IN  /\ clsOut \in {"optimal", "normal", "concerning", "critical"}
            /\ (clsOut = "critical") <=> isCritical
            /\ (clsOut = "concerning") <=> (~isCritical /\ isConcerning)
            /\ (clsOut = "optimal") <=> (~isCritical /\ ~isConcerning /\ isOptimal)
            /\ (clsOut = "normal") <=> (~isCritical /\ ~isConcerning /\ ~isOptimal)

\* C10 witness: a mean below both critical_low and min_normal has been
\* classified critical.
C10_Witness ==
    /\ clsOut = "critical"
    /\ clsIn.sum < clsIn.r.critical_low * clsIn.n
    /\ clsIn.sum < clsIn.r.min_normal * clsIn.n
    /\ clsIn.r.critical_low < clsIn.r.min_normal

-----------------------------------------------------------------------------
(* Properties of the calculator's result for the rows calcIn *)

\* The biomarker types with a reading among the rows
TypesOf(rows) == {rows[i].biomarker_type : i \in 1..Len(rows)}

\* Lines 169-193: the status the loop gives biomarker type t of the rows
TypeStatus(rows, t, tbl) ==
    IF t \in DOMAIN tbl
    THEN StatusLabel(tbl[t], SumSeq(GroupedValues(rows, t)), Len(GroupedValues(rows, t)))
    ELSE "normal"

\* C11: if any single reading of an averaged metric lies below critical_low or
\* above critical_high, the metric is classified critical, overall_status is
\* critical and exactly one alert is produced for it, even when the day's
\* mean lies inside the normal range.
C11_SingleCriticalReading ==
    calcOut.error = "none" =>
        \A t \in {"heart_rate", "glucose"} \cap DOMAIN ranges :
            (\E i \in 1..Len(calcIn) :
                /\ calcIn[i].biomarker_type = t
                /\ \/ calcIn[i].value < ranges[t].critical_low
                   \/ calcIn[i].value > ranges[t].critical_high)
            => /\ calcOut.summary_data.metrics[t].status = "critical"
               /\ calcOut.overall_status = "critical"
               /\ Cardinality({j \in 1..Len(calcOut.summary_data.alerts) :
                                  calcOut.summary_data.alerts[j].biomarker = t}) = 1

\* C12: when the day has systolic and diastolic readings, the status of the
\* blood_pressure block is the more severe of the two classifications
\* (critical > concerning > normal > optimal), whichever is processed first.
C12_BloodPressureMoreSevere ==
    (/\ calcOut.error = "none"
     /\ {"blood_pressure_systolic", "blood_pressure_diastolic"} \subseteq TypesOf(calcIn))
    => LET severity == [critical |-> 3, concerning |-> 2, normal |-> 1, optimal |-> 0]
           sys == TypeStatus(calcIn, "blood_pressure_systolic", ranges)
           dia == TypeStatus(calcIn, "blood_pressure_diastolic", ranges)
           worse == IF severity[sys] >= severity[dia] THEN sys ELSE dia
       IN  calcOut.summary_data.metrics["blood_pressure"].status = worse

\* The steps readings of the rows as one reading of their total
StepsAsOneReading(rows) ==
    <<[biomarker_type |-> "steps", value |-> SumSeq(GroupedValues(rows, "steps"))]>>

\* C13: the status of the steps block is determined by the day's total steps
\* as a percentage of the goal, not by the generic range classifier applied to
\* the step readings: two days with the same total get the same steps status,
\* however the total is split into readings.
C13_StepsStatusByTotal ==
    (calcOut.error = "none" /\ "steps" \in TypesOf(calcIn)) =>
        \A strict \in BOOLEAN :
            LET one == CalculateDailySummary(StepsAsOneReading(calcIn), 1,
                                             "morning_briefing", ranges, strict)
            IN  one.error = "none" =>
                    /\ one.summary_data.metrics["steps"].percentage =
                           calcOut.summary_data.metrics["steps"].percentage
                    /\ one.summary_data.metrics["steps"].status =
                           calcOut.summary_data.metrics["steps"].status

C15_TrendAgainstPriorWeek ==
    \A u \in Users, d \in Dates, k \in SummaryType, strict \in BOOLEAN :
    \A c \in RegenerateCalls(summaries, u, d, k, strict) :
        c.outcome = "returned" =>
            LET m == c.summary_data.metrics
                Prior(t) == \E r \in biomarkers :
                                /\ r.user_id = u
                                /\ r.biomarker_type = t
                                /\ r.recorded_at.date < d
                                /\ r.recorded_at.date >= d - 7
            IN  \A t \in DOMAIN m \cap {"heart_rate", "glucose"} :
                    IF Prior(t)
                    THEN /\ "trend" \in DOMAIN m[t]
                         /\ m[t].trend \in {"improving", "stable", "declining"}
                    ELSE "trend" \in DOMAIN m[t] => m[t].trend = Null

C17_MissingRangeIsNormal ==
    (/\ calcOut.error # "unset"
     /\ \E t \in {"glucose", "steps"} : t \in TypesOf(calcIn) /\ t \notin DOMAIN ranges)
    => /\ calcOut.error = "none"
       /\ \A t \in {"glucose", "steps"} :
             (t \in TypesOf(calcIn) /\ t \notin DOMAIN ranges) =>
                 calcOut.summary_data.metrics[t].status = "normal"
       /\ TypesOf(calcIn) \cap DOMAIN ranges = {} =>
             /\ ~calcOut.has_critical_values
             /\ ~calcOut.has_concerning_values

-----------------------------------------------------------------------------
(* regenerate_summary without readings *)

\* The table with row i carrying the key (user_id, target_date, summary_type)
Rekeyed(st, i, user_id, target_date, summary_type) ==
    [st EXCEPT ![i] = [@ EXCEPT !.user_id = user_id,
                                !.summary_date = target_date,
                                !.summary_type = summary_type]]

\* C20: regenerate_summary for a (user, date, kind) with zero readings on the
\* date fails with the no-data condition and leaves the table unchanged: no
\* row is inserted, and a row with that key keeps its summary_data,
\* overall_status, email_sent and email_sent_at.  The second part is checked
\* on the current table with any one of its rows carrying the key.
C20_RegenerateNoDataNoChange ==
    \A u \in Users, d \in Dates, k \in SummaryType, strict \in BOOLEAN :
        ~HasReadingOn(u, d) =>
            /\ \A c \in RegenerateCalls(summaries, u, d, k, strict) :
                  /\ c.outcome = "raised"
                  /\ c.error = "404"
                  /\ c.summaries = summaries
            /\ \A i \in 1..Len(summaries) :
               \A c \in RegenerateCalls(Rekeyed(summaries, i, u, d, k), u, d, k, strict) :
                  /\ c.outcome = "raised"
                  /\ c.error = "404"
                  /\ c.summaries = Rekeyed(summaries, i, u, d, k)

\* C20 witness: the table holds a row that is not pending, and its user has no
\* reading on another date, for which regenerate_summary is refused.
C20_Witness ==
    \E i \in 1..Len(summaries), d \in Dates :
        /\ summaries[i].email_sent
        /\ ~HasReadingOn(summaries[i].user_id, d)
        /\ \A c \in RegenerateCalls(summaries, summaries[i].user_id, d,
                                    summaries[i].summary_type, TRUE) :
               c.outcome = "raised" /\ c.error = "404"

-----------------------------------------------------------------------------
(* Providers and their patients: app/services/connection_service.py, and the *)
(* provider reads of HealthSummaryService                                    *)

ProviderUsers == {"p1", "p2"}

MaxConnections == 3

ConnectionStatus == {"pending", "accepted", "rejected", "disconnected"}

PatientRow(user_id) == [id |-> <<"patient", user_id>>, user_id |-> user_id]

ProviderRow(user_id, license_status) ==
    [id |-> <<"provider", user_id>>, user_id |-> user_id,
     license_status |-> license_status]

\* table(...).select(...).eq("user_id", user_id): the profile rows of a user
ProfileRows(tbl, user_id) == {r \in tbl : r.user_id = user_id}

\* .data[0] of the profile rows
Profile(tbl, user_id) == CHOOSE r \in ProfileRows(tbl, user_id) : TRUE

\* .eq("patient_id", patient_id).eq("status", "accepted")
AcceptedOf(conns, patient_id) ==
    {i \in 1..Len(conns) : conns[i].patient_id = patient_id /\ conns[i].status = "accepted"}

\* .eq("patient_id", ...).eq("provider_id", ...).eq("status", "pending")
PendingBetween(conns, patient_id, provider_id) ==
    {i \in 1..Len(conns) : /\ conns[i].patient_id = patient_id
                           /\ conns[i].provider_id = provider_id
                           /\ conns[i].status = "pending"}

\* request_connection: each HTTPException raised before the insert is a guard
RequestConnection(patient_user_id, provider_user_id) ==
    /\ Len(connections) < MaxConnections
    /\ ProfileRows(patients, patient_user_id) # {}
    /\ ProfileRows(providers, provider_user_id) # {}
    /\ Profile(providers, provider_user_id).license_status = "approved"
    /\ AcceptedOf(connections, Profile(patients, patient_user_id).id) = {}
    /\ PendingBetween(connections, Profile(patients, patient_user_id).id,
                      Profile(providers, provider_user_id).id) = {}
    /\ connections' = Append(connections,
           [id |-> Len(connections) + 1,
            patient_id |-> Profile(patients, patient_user_id).id,
            provider_id |-> Profile(providers, provider_user_id).id,
            status |-> "pending"])
    /\ UNCHANGED <<patients, providers>>
    /\ UNCHANGED mailVars
    /\ UNCHANGED sysVars
    /\ UNCHANGED pureVars
    /\ UNCHANGED flightVars

\* accept_connection
AcceptConnection(connection_id, provider_user_id) ==
    /\ ProfileRows(providers, provider_user_id) # {}
    /\ connection_id \in 1..Len(connections)
    /\ connections[connection_id].provider_id = Profile(providers, provider_user_id).id
    /\ connections[connection_id].status = "pending"
    /\ AcceptedOf(connections, connections[connection_id].patient_id) = {}
    /\ connections' = [connections EXCEPT ![connection_id].status = "accepted"]
    /\ UNCHANGED <<patients, providers>>
    /\ UNCHANGED mailVars
    /\ UNCHANGED sysVars
    /\ UNCHANGED pureVars
    /\ UNCHANGED flightVars

\* reject_connection
RejectConnection(connection_id, provider_user_id) ==
    /\ ProfileRows(providers, provider_user_id) # {}
    /\ connection_id \in 1..Len(connections)
    /\ connections[connection_id].provider_id = Profile(providers, provider_user_id).id
    /\ connections[connection_id].status = "pending"
    /\ connections' = [connections EXCEPT ![connection_id].status = "rejected"]
    /\ UNCHANGED <<patients, providers>>
    /\ UNCHANGED mailVars
    /\ UNCHANGED sysVars
    /\ UNCHANGED pureVars
    /\ UNCHANGED flightVars

\* disconnect_from_provider
DisconnectFromProvider(connection_id, patient_user_id) ==
    /\ ProfileRows(patients, patient_user_id) # {}
    /\ connection_id \in 1..Len(connections)
    /\ connections[connection_id].patient_id = Profile(patients, patient_user_id).id
    /\ connections[connection_id].status = "accepted"
    /\ connections' = [connections EXCEPT ![connection_id].status = "disconnected"]
    /\ UNCHANGED <<patients, providers>>
    /\ UNCHANGED mailVars
    /\ UNCHANGED sysVars
    /\ UNCHANGED pureVars
    /\ UNCHANGED flightVars

\* Lines 616-620: the ids of the connection rows of the two profiles
ConnectionIds(provs, pats, conns, provider_user_id, patient_user_id) ==
    IF ProfileRows(provs, provider_user_id) = {} \/ ProfileRows(pats, patient_user_id) = {}
    THEN {}
    ELSE {i \in 1..Len(conns) :
             /\ conns[i].provider_id = Profile(provs, provider_user_id).id
             /\ conns[i].patient_id = Profile(pats, patient_user_id).id}

\* The rows connection_check.data[0] may be: the query has no order
ConnectionChoices(provs, pats, conns, provider_user_id, patient_user_id) ==
    IF ConnectionIds(provs, pats, conns, provider_user_id, patient_user_id) = {} THEN {0}
    ELSE ConnectionIds(provs, pats, conns, provider_user_id, patient_user_id)

\* VerifyProviderPatientConnection refusing only a pair without any connection row
VerifyProviderPatientConnectionAnyStatus(provs, pats, conns, provider_user_id, patient_user_id, first) ==
    IF ProfileRows(provs, provider_user_id) = {}
    THEN [code |-> "404", detail |-> "Provider profile not found"]
    ELSE IF ProfileRows(pats, patient_user_id) = {}
    THEN [code |-> "404", detail |-> "Patient profile not found"]
    ELSE IF ConnectionIds(provs, pats, conns, provider_user_id, patient_user_id) = {}
    THEN [code |-> "403", detail |-> "No accepted connection with this patient"]
    ELSE [code |-> "ok", detail |-> ""]

\* _verify_provider_patient_connection: lines 574-634.  first: the id of
\* connection_check.data[0]; code "ok" when nothing is raised.
VerifyProviderPatientConnection(provs, pats, conns, provider_user_id, patient_user_id, first) ==
    IF ProfileRows(provs, provider_user_id) = {}
    THEN [code |-> "404", detail |-> "Provider profile not found"]
    ELSE IF ProfileRows(pats, patient_user_id) = {}
    THEN [code |-> "404", detail |-> "Patient profile not found"]
    ELSE IF \/ ConnectionIds(provs, pats, conns, provider_user_id, patient_user_id) = {}
            \/ conns[first].status # "accepted"
    THEN [code |-> "403", detail |-> "No accepted connection with this patient"]
    ELSE [code |-> "ok", detail |-> ""]

\* get_user_summaries_range, lines 437-449: the ids of the selected rows
RangeIds(st, user_id, start_date, end_date, summary_type) ==
    {i \in 1..Len(st) : /\ st[i].user_id = user_id
                        /\ st[i].summary_date >= start_date
                        /\ st[i].summary_date <= end_date
                        /\ (summary_type # "" => st[i].summary_type = summary_type)}

\* .order("summary_date", desc=True): rows of one date come in any order
RangeOrders(st, ids) ==
    {o \in Orderings(ids) :
        \A i, j \in 1..Len(o) : i < j => st[o[i]].summary_date >= st[o[j]].summary_date}

\* get_user_summaries_range: the rows in the order the query returned them
GetUserSummariesRange(st, order) == [i \in 1..Len(order) |-> WithMetadata(st[order[i]])]

\* get_patient_summary_for_provider: lines 638-677
GetPatientSummaryForProvider(st, provs, pats, conns, provider_user_id, patient_user_id, summary_date, summary_type, first) ==
    LET v == VerifyProviderPatientConnection(provs, pats, conns, provider_user_id,
                                             patient_user_id, first)
    IN  IF v.code # "ok"
        THEN [outcome |-> "raised", error |-> v.code, detail |-> v.detail]
        ELSE [outcome |-> "returned",
              summary |-> GetUserSummary(st, patient_user_id, summary_date, summary_type)]

\* get_patient_summaries_range_for_provider: lines 681-723
GetPatientSummariesRangeForProvider(st, provs, pats, conns, provider_user_id, patient_user_id, order, first) ==
    LET v == VerifyProviderPatientConnection(provs, pats, conns, provider_user_id,
                                             patient_user_id, first)
    IN  IF v.code # "ok"
        THEN [outcome |-> "raised", error |-> v.code, detail |-> v.detail]
        ELSE [outcome |-> "returned", summaries |-> GetUserSummariesRange(st, order)]

\* The readings behind the summaries of the provider reads
ProviderReadings ==
    {Reading("u1", "heart_rate", 70, RecordedAt(1, FALSE)),
     Reading("u2", "glucose", 100, RecordedAt(1, FALSE))}

\* The summaries are those of a morning pass over ProviderReadings (both
\* users, or u1 alone when the pass stopped at u2).  The profile tables: u2
\* may have no patient profile, p2 may have no provider profile or an
\* unapproved license.
ProviderInit ==
    /\ today = 2
    /\ ranges = StoredRanges
    /\ biomarkers = ProviderReadings
    /\ summaries \in {MorningBriefingCall(<<>>, SomeDate(1), <<"u1", "u2">>, rowsOf, strict).summaries :
                         rowsOf \in RowOrders(ProviderReadings, UserIds(ProviderReadings, 1), 1),
                         strict \in BOOLEAN}
    /\ regen = [w \in Workers |-> Idle]
    /\ pass = Idle
    /\ patients \in {{PatientRow("u1"), PatientRow("u2")}, {PatientRow("u1")}}
    /\ providers \in {{ProviderRow("p1", "approved"), ProviderRow("p2", "approved")},
                      {ProviderRow("p1", "approved"), ProviderRow("p2", "pending")},
                      {ProviderRow("p1", "approved")}}
    /\ connections = <<>>
    /\ dispatch = Idle
    /\ outbox = {}
    /\ calcIn = <<>>
    /\ calcOut = [error |-> "unset"]
    /\ clsIn = [r |-> RangeRow(0, 0, 0, 0, 0, 0), sum |-> 0, n |-> 1]
    /\ clsOut = "unset"

ProviderNext ==
    \/ \E u \in Users, p \in ProviderUsers : RequestConnection(u, p)
    \/ \E id \in 1..MaxConnections, p \in ProviderUsers : AcceptConnection(id, p)
    \/ \E id \in 1..MaxConnections, p \in ProviderUsers : RejectConnection(id, p)
    \/ \E id \in 1..MaxConnections, u \in Users : DisconnectFromProvider(id, u)

ProviderSpec == ProviderInit /\ [][ProviderNext]_vars

\* What a provider read can come to in the current state
PatientSummaryReads(provider_user_id, patient_user_id) ==
    {GetPatientSummaryForProvider(summaries, providers, patients, connections,
                                  provider_user_id, patient_user_id, d, k, first) :
        d \in Dates, k \in SummaryType \cup {""},
        first \in ConnectionChoices(providers, patients, connections,
                                    provider_user_id, patient_user_id)}

PatientRangeReads(provider_user_id, patient_user_id) ==
    UNION {{GetPatientSummariesRangeForProvider(summaries, providers, patients, connections,
                                                provider_user_id, patient_user_id, order, first) :
               order \in RangeOrders(summaries, RangeIds(summaries, patient_user_id, d1, d2, k)),
               first \in ConnectionChoices(providers, patients, connections,
                                           provider_user_id, patient_user_id)} :
           d1 \in Dates, d2 \in Dates, k \in SummaryType \cup {""}}

\* An accepted connection row joins the profiles of the two users
AcceptedBetween(provider_user_id, patient_user_id) ==
    \E i \in ConnectionIds(providers, patients, connections,
                           provider_user_id, patient_user_id) :
        connections[i].status = "accepted"

\* C18: the provider reads return patient summary data only when an accepted
\* connection exists between the provider and the patient at the time of the
\* check; in every other case (no connection, pending, rejected,
\* disconnected) they raise and return nothing.
C18_ProviderReadsNeedAccepted ==
    \A p \in ProviderUsers, u \in Users :
        /\ \A c \in PatientSummaryReads(p, u) :
              /\ c.outcome = "returned" => AcceptedBetween(p, u)
              /\ ~AcceptedBetween(p, u) =>
                     c.outcome = "raised" /\ DOMAIN c = {"outcome", "error", "detail"}
        /\ \A c \in PatientRangeReads(p, u) :
              /\ c.outcome = "returned" => AcceptedBetween(p, u)
              /\ ~AcceptedBetween(p, u) =>
                     c.outcome = "raised" /\ DOMAIN c = {"outcome", "error", "detail"}

\* C18 witness: a provider with an accepted connection reads a stored summary
\* of the patient, while another connection row is pending, rejected or
\* disconnected and its provider is refused.
C18_Witness ==
    \E p \in ProviderUsers, q \in ProviderUsers, u \in Users :
        /\ AcceptedBetween(p, u)
        /\ \E c \in PatientSummaryReads(p, u) : c.outcome = "returned" /\ c.summary.found
        /\ ~AcceptedBetween(q, u)
        /\ ConnectionIds(providers, patients, connections, q, u) # {}
        /\ \A c \in PatientSummaryReads(q, u) : c.outcome = "raised"

\* C19: for a provider without an accepted connection to the requested
\* patient, the provider read fails with the same forbidden error whether or
\* not the patient (profile or summaries) exists.
C19_ForbiddenHidesExistence ==
    \A p \in ProviderUsers, u \in Users :
        (ProfileRows(providers, p) # {} /\ ~AcceptedBetween(p, u)) =>
            \A c \in PatientSummaryReads(p, u) \cup PatientRangeReads(p, u) :
                c.outcome = "raised" /\ c.error = "403"

-----------------------------------------------------------------------------
(* The run summary of a pass *)

\* C21: a completed pass, morning or evening alike, returns a run summary in
\* which total_users_processed is the number of distinct users with a reading
\* in the target date's window, summaries_created is the number of rows the
\* pass persisted, and the number of users with a critical flag is reported
\* and never exceeds summaries_created.
C21_RunSummary ==
    LET Eligible(d) == {u \in Users : \E r \in biomarkers :
                            r.user_id = u /\ InWindow(r.recorded_at, d)}
        Created(c) == (Len(summaries) + 1)..Len(c.summaries)
        RunSummaryOk(c, d) ==
            /\ c.total_users_processed = Cardinality(Eligible(d))
            /\ c.summaries_created = Cardinality(Created(c))
            /\ "users_with_alerts" \in DOMAIN c
            /\ c.users_with_alerts <= c.summaries_created
            /\ c.users_with_alerts =
                   Cardinality({i \in Created(c) : c.summaries[i].overall_status = "critical"})
    IN  \A target \in OptionalDates :
            /\ \A c \in MorningCalls(target) :
                  c.outcome = "returned" => RunSummaryOk(c, MorningTarget(target))
            /\ \A c \in EveningCalls(target) :
                  c.outcome = "returned" => RunSummaryOk(c, EveningTarget(target))

-----------------------------------------------------------------------------
(* The life of a summary row *)

\* The results send_morning_briefing_emails can come to in the current state
DispatcherCalls ==
    {SendEmailsCall(summaries, outcomeOf) :
        outcomeOf \in [PendingIds(summaries) -> RowOutcomes]}

\* Row b is row a except, possibly, for the given fields
SameExcept(a, b, fields) ==
    /\ DOMAIN a = DOMAIN b
    /\ \A f \in DOMAIN a \ fields : a[f] = b[f]

\* C22: no operation deletes a summary row, and a batch pass never modifies a
\* row that already exists: an existing row changes only through
\* regenerate_summary (summary_data, overall_status, email_sent,
\* email_sent_at) or through the dispatcher (email_sent, email_sent_at); its
\* user_id, summary_date and summary_type never change.
C22_RowsChangeOnlyInListedFields ==
    /\ \A target \in OptionalDates :
       \A c \in MorningCalls(target) \cup EveningCalls(target) :
           /\ Len(c.summaries) >= Len(summaries)
           /\ \A i \in 1..Len(summaries) : c.summaries[i] = summaries[i]
    /\ \A u \in Users, d \in Dates, k \in SummaryType, strict \in BOOLEAN :
       \A c \in RegenerateCalls(summaries, u, d, k, strict) :
           /\ Len(c.summaries) >= Len(summaries)
           /\ \A i \in 1..Len(summaries) :
                 /\ SameExcept(summaries[i], c.summaries[i],
                               {"summary_data", "overall_status",
                                "email_sent", "email_sent_at"})
                 /\ SameKey(summaries[i], c.summaries[i])
    /\ \A c \in DispatcherCalls :
           /\ Len(c.summaries) = Len(summaries)
           /\ \A i \in 1..Len(summaries) :
                 /\ SameExcept(summaries[i], c.summaries[i],
                               {"email_sent", "email_sent_at"})
                 /\ SameKey(summaries[i], c.summaries[i])

\* C22 witness: the table holds a morning_briefing row the dispatcher has
\* marked as sent, its user still has the readings of that date, so that
\* regenerate_summary updates the row in place, and a pass can add a row
\* next to it.
C22_Witness ==
    \E i \in 1..Len(summaries) :
        /\ summaries[i].summary_type = "morning_briefing"
        /\ summaries[i].email_sent
        /\ summaries[i].email_sent_at = "now"
        /\ \E c \in RegenerateCalls(summaries, summaries[i].user_id,
                                    summaries[i].summary_date, "morning_briefing", TRUE) :
              c.outcome = "returned" /\ c.summaries[i] # summaries[i]
        /\ \E target \in OptionalDates :
           \E c \in EveningCalls(target) : Len(c.summaries) > Len(summaries)

\* C23: send_morning_briefing_emails changes only email_sent and
\* email_sent_at, only on morning_briefing rows that had email_sent = false,
\* and only after the email send for that row reported success; a row whose
\* send fails, raises, or whose user is missing stays pending, and it does not
\* stop the other pending rows from being processed: the run returns, and
\* every row whose send succeeded and whose update was done is marked as sent.
C23_DispatcherFrame ==
    \A outcomeOf \in [PendingIds(summaries) -> RowOutcomes] :
        LET c == SendEmailsCall(summaries, outcomeOf)
        IN  /\ c.outcome = "returned"
            /\ Len(c.summaries) = Len(summaries)
            /\ \A i \in 1..Len(summaries) :
                  c.summaries[i] # summaries[i] =>
                      /\ SameExcept(summaries[i], c.summaries[i],
                                    {"email_sent", "email_sent_at"})
                      /\ summaries[i].summary_type = "morning_briefing"
                      /\ ~summaries[i].email_sent
                      /\ outcomeOf[i] = "sent"
                      /\ Email(summaries, i) \in c.emails
            /\ \A i \in PendingIds(summaries) :
                  /\ outcomeOf[i] \in {"user_missing", "send_raised", "send_false"} =>
                         c.summaries[i] = summaries[i]
                  /\ outcomeOf[i] = "sent" =>
                         /\ c.summaries[i].email_sent
                         /\ c.summaries[i].email_sent_at = "now"
            /\ c.sent_count = Cardinality({i \in PendingIds(summaries) : outcomeOf[i] = "sent"})

\* C23 witness: two morning_briefing rows were pending, the send of one
\* succeeded and the other stayed pending; an evening_summary row or a sent
\* row is not needed for the case.
C23_Witness ==
    \E i, j \in 1..Len(summaries) :
        /\ i # j
        /\ summaries[i].summary_type = "morning_briefing"
        /\ summaries[j].summary_type = "morning_briefing"
        /\ summaries[i].email_sent /\ summaries[i].email_sent_at = "now"
        /\ ~summaries[j].email_sent

\* C28: the dispatcher never sends an email for an evening_summary row,
\* whatever that row's email_sent value, after any sequence of passes,
\* regenerations and dispatcher runs.
C28_NoEveningEmail ==
    \A c \in DispatcherCalls :
    \A e \in c.emails :
        summaries[e.id].summary_type # "evening_summary"

\* C28 witness: regenerate_summary has left an evening_summary row with
\* email_sent = false, and the dispatcher has sent the email of a
\* morning_briefing row.
C28_Witness ==
    /\ \E i \in 1..Len(summaries) :
          summaries[i].summary_type = "evening_summary" /\ ~summaries[i].email_sent
    /\ \E j \in 1..Len(summaries) :
          summaries[j].summary_type = "morning_briefing" /\ summaries[j].email_sent

-----------------------------------------------------------------------------
(* Provider reads after a reconnection *)

\* C25: after any sequence of request, accept, reject and disconnect
\* operations that leaves a connection with status accepted between a provider
\* and a patient, the provider reads are authorised for that pair (they do not
\* raise), even when older rejected or disconnected connection rows exist for
\* the same pair.
C25_AcceptedIsAuthorised ==
    \A p \in ProviderUsers, u \in Users :
        AcceptedBetween(p, u) =>
            \A c \in PatientSummaryReads(p, u) \cup PatientRangeReads(p, u) :
                c.outcome = "returned"

-----------------------------------------------------------------------------
(* What a reader sees of a stored summary *)

\* The table holding one row, written from the calculator's result as the
\* passes and regenerate_summary write it
StoredResult == <<NewSummaryRow(<<>>, "u1", 1, "morning_briefing", calcOut, FALSE)>>

\* C26: a stored summary in which some metric was classified concerning is
\* returned by get_user_summary and get_user_summaries_range with
\* has_concerning_values = true: the has_concerning_values a reader sees equals
\* the has_concerning_values the calculator produced for that summary.
C26_ReadHasConcerning ==
    calcOut.error = "none" =>
        LET got == GetUserSummary(StoredResult, "u1", 1, "morning_briefing")
            range == GetUserSummariesRange(StoredResult, <<1>>)
        IN  /\ got.found
            /\ got.row.has_concerning_values = calcOut.has_concerning_values
            /\ range[1].has_concerning_values = calcOut.has_concerning_values

\* C27: for a stored summary, the total_readings and biomarkers_tracked that
\* get_user_summary and get_user_summaries_range return equal the
\* total_readings (number of readings aggregated) and biomarkers_tracked
\* (biomarker types with readings) the calculator returned for the same
\* readings, which regenerate_summary returns unchanged.
C27_ReadTotalsMatchCalculator ==
    calcOut.error = "none" =>
        LET got == GetUserSummary(StoredResult, "u1", 1, "morning_briefing")
            range == GetUserSummariesRange(StoredResult, <<1>>)
            tracked == {calcOut.biomarkers_tracked[i] :
                           i \in 1..Len(calcOut.biomarkers_tracked)}
        IN  /\ got.found
            /\ got.row.total_readings = calcOut.total_readings
            /\ got.row.biomarkers_tracked = tracked
            /\ range[1].total_readings = calcOut.total_readings
            /\ range[1].biomarkers_tracked = tracked

-----------------------------------------------------------------------------
(* The window of a day: readings ingested at any time of the day, the last  *)
(* second before midnight included                                          *)

\* The readings the ingestion draws from: recorded_at is the client's
\* timestamp, stored as given (biomarker_service.py, lines 83-97)
WindowSamples ==
    {Reading("u1", "heart_rate", 70, RecordedAt(1, FALSE)),
     Reading("u1", "heart_rate", 130, RecordedAt(1, TRUE)),
     Reading("u2", "glucose", 100, RecordedAt(1, TRUE)),
     Reading("u2", "glucose", 100, RecordedAt(2, FALSE))}

WindowInit ==
    /\ today = 2
    /\ ranges = StoredRanges
    /\ biomarkers = {}
    /\ summaries = <<>>
    /\ regen = [w \in Workers |-> Idle]
    /\ pass = Idle
    /\ patients = {}
    /\ providers = {}
    /\ connections = <<>>
    /\ dispatch = Idle
    /\ outbox = {}
    /\ calcIn = <<>>
    /\ calcOut = [error |-> "unset"]
    /\ clsIn = [r |-> RangeRow(0, 0, 0, 0, 0, 0), sum |-> 0, n |-> 1]
    /\ clsOut = "unset"

WindowNext ==
    \/ \E r \in WindowSamples :
          InsertBiomarkerData(r.user_id, r.biomarker_type, r.value, r.recorded_at)
    \/ \E target \in OptionalDates : GenerateMorningBriefing(target)
    \/ \E target \in OptionalDates : GenerateEveningSummary(target)
    \/ \E u \in Users, d \in Dates, k \in SummaryType : RegenerateSummary(u, d, k)

WindowSpec == WindowInit /\ [][WindowNext]_vars

\* C30: the batch enumeration and the calculator take into account every
\* reading whose recorded_at falls in the half-open window [target date
\* 00:00:00, next day 00:00:00), a reading stamped after 23:59:59 and before
\* midnight included, and no reading outside that window: a completed pass
\* has considered exactly the users with a reading on the target date, and a
\* completed regenerate_summary has aggregated exactly the user's readings of
\* that date, and is not refused for want of data when there is one.
C30_HalfOpenWindow ==
    LET OfDay(u, d) == {r \in biomarkers : r.user_id = u /\ r.recorded_at.date = d}
        UsersOfDay(d) == {u \in Users : OfDay(u, d) # {}}
    IN  /\ \A target \in OptionalDates :
              /\ \A c \in MorningCalls(target) :
                    c.outcome = "returned" =>
                        c.total_users_processed = Cardinality(UsersOfDay(MorningTarget(target)))
              /\ \A c \in EveningCalls(target) :
                    c.outcome = "returned" =>
                        c.total_users_processed = Cardinality(UsersOfDay(EveningTarget(target)))
        /\ \A u \in Users, d \in Dates, k \in SummaryType, strict \in BOOLEAN :
           \A c \in RegenerateCalls(summaries, u, d, k, strict) :
              /\ c.outcome = "returned" => c.total_readings = Cardinality(OfDay(u, d))
              /\ (c.outcome = "raised" /\ c.error = "404") => OfDay(u, d) = {}

-----------------------------------------------------------------------------
(* The dispatcher under fair scheduling: the job of main.py, lines 107-117,  *)
(* runs every day at 00:15 and selects every pending row, whatever its date  *)

\* A run of send_morning_briefing_emails in which the user of row id is found,
\* the send for it returns True and its update is done
DispatchDelivers(id) ==
    /\ id \in PendingIds(summaries)
    /\ \E outcomeOf \in [PendingIds(summaries) -> RowOutcomes] :
          /\ outcomeOf[id] = "sent"
          /\ summaries' = SendEmailsCall(summaries, outcomeOf).summaries
    /\ UNCHANGED <<today, ranges, biomarkers>>
    /\ UNCHANGED pureVars
    /\ UNCHANGED connVars
    /\ UNCHANGED mailVars
    /\ UNCHANGED flightVars

\* The service with the dispatcher scheduled again and again and the send for
\* each pending row succeeding in the end
LiveSpec ==
    /\ Init
    /\ [][Next]_vars
    /\ \A id \in 1..MaxSummaries : WF_vars(DispatchDelivers(id))

\* C29: under fair scheduling of the dispatcher, every morning_briefing row
\* with email_sent = false whose user exists and whose email send eventually
\* succeeds eventually reaches email_sent = true with email_sent_at set,
\* whether the row was created by the morning pass or reset by
\* regenerate_summary.
C29_PendingEventuallySent ==
    \A id \in 1..MaxSummaries :
        (/\ id <= Len(summaries)
         /\ summaries[id].summary_type = "morning_briefing"
         /\ ~summaries[id].email_sent)
        ~> (/\ id <= Len(summaries)
            /\ summaries[id].email_sent
            /\ summaries[id].email_sent_at = "now")

\* C29 witness: a morning_briefing row of a date other than yesterday has been
\* sent, and the other row of the table is a morning_briefing that
\* regenerate_summary or a pass has left pending.
C29_Witness ==
    \E id, other \in 1..Len(summaries) :
        /\ summaries[id].summary_type = "morning_briefing"
        /\ summaries[id].summary_date # today - 1
        /\ summaries[id].email_sent
        /\ summaries[id].email_sent_at = "now"
        /\ summaries[other].summary_type = "morning_briefing"
        /\ ~summaries[other].email_sent

-----------------------------------------------------------------------------
(* The dispatcher next to regenerate_summary on one database: the dispatcher *)
(* takes one step per execute() call and per send, and ingestion and         *)
(* regenerate_summary calls of other workers come in between                 *)

\* Lines 290-297: the select of the pending rows; the run holds id and
\* summary_data of each as they were read
DispatchSelect ==
    /\ dispatch.pc = "idle"
    /\ dispatch' = [pc |-> "loop",
                    todo |-> {Email(summaries, i) : i \in PendingIds(summaries)},
                    sent_count |-> 0]
    /\ UNCHANGED <<sysVars, outbox, flightVars, pureVars, connVars>>

\* Lines 301-317, 327-335: the next row; its user is missing, or the send
\* raises or returns False; the loop goes on
DispatchSkip(id) ==
    /\ dispatch.pc = "loop"
    /\ \E row \in dispatch.todo :
          /\ row.id = id
          /\ dispatch' = [dispatch EXCEPT !.todo = @ \ {row}]
    /\ UNCHANGED <<sysVars, outbox, flightVars, pureVars, connVars>>

\* Lines 301-317: the next row; its user is found and the send, with the
\* summary_data the select returned, returns True
DispatchSend(id) ==
    /\ dispatch.pc = "loop"
    /\ \E row \in dispatch.todo :
          /\ row.id = id
          /\ outbox' = outbox \cup {row}
          /\ dispatch' = [pc |-> "update", todo |-> dispatch.todo \ {row},
                          sent_count |-> dispatch.sent_count, row |-> row]
    /\ UNCHANGED <<sysVars, flightVars, pureVars, connVars>>

\* Lines 319-325: the update of the row by id, or its exception, caught at 333
DispatchMark(raised) ==
    /\ dispatch.pc = "update"
    /\ summaries' = IF raised THEN summaries
                    ELSE MarkSent(summaries, {dispatch.row.id})
    /\ dispatch' = [pc |-> "loop", todo |-> dispatch.todo,
                    sent_count |-> IF raised THEN dispatch.sent_count
                                   ELSE dispatch.sent_count + 1]
    /\ UNCHANGED <<today, ranges, biomarkers, outbox, flightVars, pureVars, connVars>>

\* Line 337: return sent_count
DispatchReturn ==
    /\ dispatch.pc = "loop"
    /\ dispatch.todo = {}
    /\ dispatch' = Idle
    /\ UNCHANGED <<sysVars, outbox, flightVars, pureVars, connVars>>

\* The day after the morning pass: a reading of yesterday is stored and its
\* morning briefing is pending
DispatchInit ==
    /\ today = 2
    /\ ranges = StoredRanges
    /\ biomarkers = {Reading("u1", "heart_rate", 70, RecordedAt(1, FALSE))}
    /\ summaries \in {MorningBriefingCall(<<>>, NoDate, <<"u1">>, rowsOf, strict).summaries :
                         rowsOf \in RowOrders(biomarkers, {"u1"}, 1), strict \in BOOLEAN}
    /\ regen = [w \in Workers |-> Idle]
    /\ pass = Idle
    /\ patients = {}
    /\ providers = {}
    /\ connections = <<>>
    /\ dispatch = Idle
    /\ outbox = {}
    /\ calcIn = <<>>
    /\ calcOut = [error |-> "unset"]
    /\ clsIn = [r |-> RangeRow(0, 0, 0, 0, 0, 0), sum |-> 0, n |-> 1]
    /\ clsOut = "unset"

DispatchNext ==
    \/ \E r \in IngestSamples :
          InsertBiomarkerData(r.user_id, r.biomarker_type, r.value, r.recorded_at)
    \/ \E u \in Users, d \in Dates, k \in SummaryType : RegenerateSummary(u, d, k)
    \/ DispatchSelect
    \/ \E id \in 1..MaxSummaries : DispatchSkip(id)
    \/ \E id \in 1..MaxSummaries : DispatchSend(id)
    \/ \E raised \in BOOLEAN : DispatchMark(raised)
    \/ DispatchReturn

DispatchSpec == DispatchInit /\ [][DispatchNext]_vars

\* C24: if regenerate_summary for a morning_briefing runs while
\* send_morning_briefing_emails is processing that same row, then whenever the
\* row has email_sent = true an email was sent that carried the row's current
\* summary_data: a regenerated briefing is never left marked as sent without
\* having been emailed.
C24_SentRowWasEmailed ==
    \A i \in 1..Len(summaries) :
        (summaries[i].summary_type = "morning_briefing" /\ summaries[i].email_sent) =>
            Email(summaries, i) \in outbox

====
